---- MODULE Spec2Model ----
(***************************************************************************)
(* Model of src/server.py: a Flask front end over an Elasticsearch index   *)
(* of image signatures.  Every request is served by its own thread; the    *)
(* only shared mutable state is the index.  A handler is modelled as the   *)
(* sequence of calls it makes on the index: each call is one atomic step,  *)
(* and steps of different requests interleave freely.                      *)
(*                                                                         *)
(* The index is modelled by what the calls made on it do.  es.index and    *)
(* es.delete act on the documents at once; es.search and es.count read the *)
(* index as of its last refresh, and ses.add_image indexes without asking  *)
(* for one, so a document just indexed is found only after the index has   *)
(* refreshed by itself.  The index is created without a mapping, so path   *)
(* is an analyzed text field and q='path:"..."' is a phrase query on its   *)
(* tokens.  es.search is given no size in ids_with_path, so one call       *)
(* returns at most the default page of EsDefaultSize hits.                 *)
(***************************************************************************)
EXTENDS Integers, Sequences, FiniteSets, TLC

VARIABLES
    index,       \* the documents of es_index: records [id, seq_no, path, signature,
                 \* metadata], seq_no the document's place in the order of indexing
    searchable,  \* the documents es.search and es.count see: the index as of its
                 \* last refresh
    next_id,     \* the ids Elasticsearch has handed out so far, plus one
    auth_token,  \* os.environ.get('AUTH_TOKEN'), fixed at start-up
    pc,          \* per request thread: the call it is about to make
    frame,       \* per request thread: the handler's local variables
    out          \* what the step just taken did at the HTTP boundary, if anything: the
                 \* thread, the handler, the request it took in (<<>> if none), the
                 \* response it sent, the exception that ended the handler, and whether
                 \* the handler had called the index or the signature engine

vars == <<index, searchable, next_id, auth_token, pc, frame, out>>

-----------------------------------------------------------------------------
(* Bounds *)

NumProcs == 2          \* request threads
CoreMaxId == 2         \* documents inserted in one run of Spec
MaxId == 3             \* documents inserted in one run of SpecAdds
ApiMaxId == 1          \* documents inserted in one run of SpecApi
SeqMaxId == 4          \* documents inserted in one run of SpecSeq
MaxDup == 11           \* documents of one path in the index at start-up (SpecPurge)

Procs == 1..NumProcs

(* A missing form field, a missing query argument, an unset environment
   variable, Python's None. *)
Absent == "<absent>"

Truthy(x) == x \notin {Absent, ""}

Min(a, b) == IF a <= b THEN a ELSE b
Max(a, b) == IF a >= b THEN a ELSE b
Abs(x) == IF x < 0 THEN -x ELSE x

-----------------------------------------------------------------------------
(* Python floats: IEEE 754 binary64, every operation rounded to the nearest
   float, ties to the even mantissa.  A float is its sign and its magnitude
   as a whole number of 2^-(LimbBits * FracLimbs), written in limbs of
   LimbBits bits, least significant first, without leading zero limbs.  Zero
   and every float of magnitude between 2^-60 and 2^20 is such a number, and
   so is every intermediate result below. *)

LimbBits == 15
Base == 2^LimbBits
FracLimbs == 10
Mantissa == 53

Pow2(k) == 2^k

RECURSIVE Trim(_)
Trim(z) ==
    IF z # <<>> /\ z[Len(z)] = 0 THEN Trim(SubSeq(z, 1, Len(z) - 1)) ELSE z

Limb(z, i) == IF i <= Len(z) THEN z[i] ELSE 0

RECURSIVE SmallBits(_)
SmallBits(n) == IF n = 0 THEN 0 ELSE 1 + SmallBits(n \div 2)

BitLen(z) ==
    IF z = <<>> THEN 0 ELSE LimbBits * (Len(z) - 1) + SmallBits(z[Len(z)])

RECURSIVE AddFrom(_, _, _, _)
AddFrom(x, y, i, carry) ==
    IF i > Len(x) /\ i > Len(y)
    THEN IF carry = 0 THEN <<>> ELSE <<carry>>
    ELSE LET t == Limb(x, i) + Limb(y, i) + carry
         IN  <<t % Base>> \o AddFrom(x, y, i + 1, t \div Base)

MagAdd(x, y) == Trim(AddFrom(x, y, 1, 0))

RECURSIVE SubFrom(_, _, _, _)
SubFrom(x, y, i, borrow) ==
    IF i > Len(x) THEN <<>>
    ELSE LET t == Limb(x, i) - Limb(y, i) - borrow
         IN  <<t % Base>> \o SubFrom(x, y, i + 1, IF t < 0 THEN 1 ELSE 0)

(* x - y for x >= y *)
MagSub(x, y) == Trim(SubFrom(x, y, 1, 0))

RECURSIVE LessFrom(_, _, _)
LessFrom(x, y, i) ==
    IF i = 0 THEN FALSE
    ELSE IF x[i] # y[i] THEN x[i] < y[i]
    ELSE LessFrom(x, y, i - 1)

MagLess(x, y) ==
    IF Len(x) # Len(y) THEN Len(x) < Len(y) ELSE LessFrom(x, y, Len(x))

RECURSIVE MulFrom(_, _, _, _)
MulFrom(x, c, i, carry) ==
    IF i > Len(x)
    THEN IF carry = 0 THEN <<>>
         ELSE <<carry % Base>> \o MulFrom(x, c, i, carry \div Base)
    ELSE LET t == x[i] * c + carry
         IN  <<t % Base>> \o MulFrom(x, c, i + 1, t \div Base)

(* x * c for a whole c below 2^16 *)
MagMul(x, c) == Trim(MulFrom(x, c, 1, 0))

RECURSIVE DivFrom(_, _, _, _)
DivFrom(x, c, i, rem) ==
    IF i = 0 THEN [q |-> <<>>, inexact |-> rem # 0]
    ELSE LET t == rem * Base + x[i]
             rest == DivFrom(x, c, i - 1, t % c)
         IN  [q |-> rest.q \o <<t \div c>>, inexact |-> rest.inexact]

(* The whole part of x / c for a whole c below 2^16, and whether anything is
   left over. *)
MagDiv(x, c) ==
    LET d == DivFrom(x, c, Len(x), 0) IN [q |-> Trim(d.q), inexact |-> d.inexact]

(* The float nearest to the magnitude z (plus a fraction of its last place
   when inexact): the first Mantissa bits are kept, the rest rounds. *)
Round(z, inexact) ==
    LET k == BitLen(z) - Mantissa            \* bits dropped
        a == k \div LimbBits
        b == k % LimbBits
        cut == IF b = 0 THEN a ELSE a + 1    \* the limb of the first dropped bit
        hbit == IF b = 0 THEN LimbBits - 1 ELSE b - 1
        half == (z[cut] \div Pow2(hbit)) % 2
        below == (z[cut] % Pow2(hbit)) # 0 \/ \E i \in 1..(cut - 1) : z[i] # 0
        odd == (z[a + 1] \div Pow2(b)) % 2 = 1
        up == half = 1 /\ (below \/ inexact \/ odd)
        kept == [i \in 1..Len(z) |->
                    IF i <= a THEN 0
                    ELSE IF i = a + 1 THEN z[i] - (z[i] % Pow2(b))
                    ELSE z[i]]
        ulp == [i \in 1..(a + 1) |-> IF i = a + 1 THEN Pow2(b) ELSE 0]
    IN  IF k <= 0 THEN z
        ELSE IF up THEN MagAdd(kept, ulp) ELSE Trim(kept)

Float(neg, z) == [neg |-> neg /\ z # <<>>, z |-> z]

(* 1.0 *)
One == [i \in 1..(FracLimbs + 1) |-> IF i = FracLimbs + 1 THEN 1 ELSE 0]

RECURSIVE Whole(_)
Whole(n) == IF n = 0 THEN <<>> ELSE <<n % Base>> \o Whole(n \div Base)

(* n / d for whole n and d, 0 < d < 2^16, as Python's true division and as
   float() of the decimal text of n/d give it. *)
FromRatio(n, d) ==
    LET q == MagDiv([i \in 1..FracLimbs |-> 0] \o Whole(Abs(n)), d)
    IN  Float(n < 0, Round(q.q, q.inexact))

(* x / c and x * c for a whole c, 0 < c < 2^16 *)
FDiv(x, c) == LET q == MagDiv(x.z, c) IN Float(x.neg, Round(q.q, q.inexact))
FMul(x, c) == Float(x.neg, Round(MagMul(x.z, c), FALSE))

(* 1 - x *)
OneMinus(x) ==
    IF x.neg THEN Float(FALSE, Round(MagAdd(One, x.z), FALSE))
    ELSE IF MagLess(One, x.z) THEN Float(TRUE, Round(MagSub(x.z, One), FALSE))
    ELSE Float(FALSE, Round(MagSub(One, x.z), FALSE))

(* x < y *)
FLess(x, y) ==
    IF x.neg # y.neg THEN x.neg
    ELSE IF x.neg THEN MagLess(y.z, x.z) ELSE MagLess(x.z, y.z)

-----------------------------------------------------------------------------
(* Images and the signature engine (image_match.goldberg.ImageSignature) *)

Urls == {"a", "b"}
Blobs == {"img1", "img2", "junk"}

(* What a URL serves. *)
Fetch(url) == IF url = "a" THEN "img1" ELSE IF url = "b" THEN "img2" ELSE "junk"

Content(img, bs) == IF bs THEN img ELSE Fetch(img)

Decodable(img, bs) == Content(img, bs) \in {"img1", "img2"}

(* gis.generate_signature: an opaque fingerprint of the image content, here
   a point of 0..SigSpan. *)
SigSpan == 40
generate_signature(img, bs) == IF Content(img, bs) = "img1" THEN 0 ELSE 16

(* gis.normalized_distance: a float of [0, 1], 0 for equal signatures. *)
DistanceTable == [k \in 0..SigSpan |-> FromRatio(k, SigSpan)]
normalized_distance(s1, s2) == DistanceTable[Min(Abs(s1 - s2), SigSpan)]

-----------------------------------------------------------------------------
(* Helpers: server.py lines 38-83 *)

EsDefaultSize == 10

(* The index is created without a mapping (line 33), so path is an analyzed
   text field: the standard analyzer's tokens of a path are its words, in
   order, a "/" ending a word.  Strings have no characters here, so the
   tokens are tabulated for the paths the specifications use. *)
Analyze(path) ==
    IF path = "" THEN <<>>
    ELSE IF path = "dir/a" THEN <<"dir", "a">>
    ELSE <<path>>

(* A phrase query: the words of the phrase occur in the text one after the
   other. *)
Phrase(text, phrase) ==
    /\ phrase # <<>>
    /\ \E k \in 0..(Len(text) - Len(phrase)) :
          SubSeq(text, k + 1, k + Len(phrase)) = phrase

(* q='path:' + json.dumps(path): the documents whose path holds the words of
   the given path as a phrase. *)
Matching(idx, path) ==
    {r.id : r \in {x \in idx : Phrase(Analyze(x.path), Analyze(path))}}

(* The id lists one call of ids_with_path can return: every hit when they fit
   in one page, otherwise any EsDefaultSize of them. *)
ids_with_path(idx, path) ==
    LET m == Matching(idx, path)
    IN  IF Cardinality(m) <= EsDefaultSize
        THEN {m}
        ELSE {s \in SUBSET m : Cardinality(s) = EsDefaultSize}

(* es.delete(..., id=i, ignore=404): a missing id is not an error. *)
es_delete_nothing(idx, i) == idx
es_delete_by_path(idx, i) ==
    {r \in idx : \A d \in idx : d.id = i => r.path # d.path}
es_delete(idx, i) == {r \in idx : r.id # i}

count_images(idx) == Cardinality(idx)

(* The documents in the index's own order: the order in which they were
   indexed, whatever their ids. *)
RECURSIVE InIndexOrder(_)
InIndexOrder(idx) ==
    IF idx = {} THEN <<>>
    ELSE LET m == CHOOSE x \in idx : \A y \in idx : x.seq_no <= y.seq_no
         IN  <<m>> \o InIndexOrder(idx \ {m})

(* es.search(from_=offset, size=limit, _source='path'): a window of the index
   in its own order. *)
paths_at_location_from_start(idx, offset, limit) ==
    LET docs == InIndexOrder(idx)
    IN  [k \in 1..Min(limit, Len(docs)) |-> docs[k].path]

paths_at_location(idx, offset, limit) ==
    LET docs == InIndexOrder(idx)
        n == Len(docs)
        lo == Min(offset, n)
        hi == Min(offset + limit, n)
    IN  [k \in 1..(hi - lo) |-> docs[lo + k].path]

(* (1 - dist) * 100 *)
dist_to_percent(dist) == FMul(OneMinus(dist), 100)

(* 1 - percent / 100 *)
dist_from_percent_unscaled(percent) == OneMinus(percent)
dist_from_percent_rising(percent) == FDiv(percent, 100)
dist_from_percent(percent) == OneMinus(FDiv(percent, 100))

(* get_image: the URL when the form has one, otherwise the uploaded file. *)
HasImage(url, file) == url # Absent \/ file # Absent
get_image(url, file) ==
    IF url # Absent THEN [img |-> url, bs |-> FALSE]
    ELSE [img |-> file, bs |-> TRUE]

(* login_required: the check is made only when a token is configured. *)
denied_never(token) == FALSE
denied(token) == Truthy(auth_token) /\ token # auth_token

-----------------------------------------------------------------------------
(* Responses: the envelopes of lines 104-109 and 215-252 *)

Envelope(code, status, error, method, result) ==
    [code |-> code, status |-> status, error |-> error, method |-> method,
     result |-> result]

NoResp == Envelope(0, Absent, <<>>, Absent, <<>>)
(* json.dumps({}), 403: none of the envelope's keys. *)
Denied == Envelope(403, Absent, <<>>, Absent, <<>>)
Ok(method, result) == Envelope(200, "ok", <<>>, method, result)
bad_request == Envelope(400, "fail", <<"bad request">>, "", <<>>)
server_error(e) == Envelope(500, "fail", <<e>>, "", <<>>)

(* Flask's dispatch of an exception that leaves a handler: a missing form key
   is an HTTP 400, anything else an HTTP 500. *)
ErrorResponse(e) ==
    IF e = "BadRequestKeyError" THEN bad_request ELSE server_error(e)

NoFrame ==
    [path |-> "", img |-> "", bs |-> FALSE, metadata |-> Absent, old_ids |-> {},
     inserted |-> FALSE]

-----------------------------------------------------------------------------
(* Requests.  A request is its token (the "token" query argument) and its
   form fields; Absent marks a field the client did not send. *)

Tokens == {"s", "x"}
AuthTokens == {Absent, "s"}

AddReq(token, url, image, filepath, metadata) ==
    [token |-> token, url |-> url, image |-> image, filepath |-> filepath,
     metadata |-> metadata]

DeleteRequests(tokens, filepaths) == [token : tokens, filepath : filepaths]

PlainRequests(tokens) == [token : tokens]

ValidJson(s) == s # "malformed"

-----------------------------------------------------------------------------
(* The HTTP boundary: a request taken in, a response sent *)

NoOut ==
    [proc |-> 0, handler |-> "", received |-> <<>>, resp |-> NoResp, raised |-> "",
     touched |-> FALSE]

(* The handler returns or raises: the thread is free again. *)
Reply(self, handler, received, rsp, exc, t) ==
    /\ pc' = [pc EXCEPT ![self] = "idle"]
    /\ frame' = [frame EXCEPT ![self] = NoFrame]
    /\ out' = [proc |-> self, handler |-> handler, received |-> received,
               resp |-> rsp, raised |-> exc, touched |-> t]

(* The handler goes on to its first call on the index. *)
Enter(self, handler, r, at, f) ==
    /\ pc' = [pc EXCEPT ![self] = at]
    /\ frame' = [frame EXCEPT ![self] = f]
    /\ out' = [NoOut EXCEPT !.proc = self, !.handler = handler,
                            !.received = <<r>>]

(* Inserts still to come from the adds in flight: a cap on these and on the
   ids handed out bounds the run. *)
Reserved == Cardinality({p \in Procs : pc[p] \in {"add_lookup", "add_insert"}})

-----------------------------------------------------------------------------
(* add_handler: lines 89-109 *)

(* Lines 92-98: the exception raised before the first call on the index, or
   the path, image and metadata the calls are made with. *)
add_prelude_path_first(r) ==
    LET g == get_image(r.url, r.image)
        exc == IF ~ValidJson(r.metadata) THEN "JSONDecodeError"
               ELSE IF ~HasImage(r.url, r.image) THEN "BadRequestKeyError"
               ELSE ""
    IN  [exc |-> exc,
         path |-> IF ~Truthy(r.filepath) THEN g.img ELSE r.filepath,
         img |-> g.img, bs |-> g.bs, metadata |-> r.metadata]

add_prelude_image_path(r) ==
    LET g == get_image(r.url, r.image)
        exc == IF ~ValidJson(r.metadata) THEN "JSONDecodeError"
               ELSE IF ~HasImage(r.url, r.image) THEN "BadRequestKeyError"
               ELSE IF ~Truthy(r.filepath) /\ g.bs THEN "ValueError"
               ELSE ""
    IN  [exc |-> exc, path |-> g.img, img |-> g.img, bs |-> g.bs,
         metadata |-> r.metadata]

add_prelude(r) ==
    LET g == get_image(r.url, r.image)
        exc == IF ~ValidJson(r.metadata) THEN "JSONDecodeError"
               ELSE IF ~HasImage(r.url, r.image) THEN "BadRequestKeyError"
               ELSE IF ~Truthy(r.filepath) /\ g.bs THEN "ValueError"
               ELSE ""
    IN  [exc |-> exc,
         path |-> IF ~Truthy(r.filepath) THEN g.img ELSE r.filepath,
         img |-> g.img, bs |-> g.bs, metadata |-> r.metadata]

AddBegin(self, r, cap) ==
    /\ pc[self] = "idle"
    /\ IF denied(r.token)
       THEN Reply(self, "add", <<r>>, Denied, "", FALSE)
       ELSE LET p == add_prelude(r)
            IN  IF p.exc # ""
                THEN Reply(self, "add", <<r>>, ErrorResponse(p.exc), p.exc, FALSE)
                ELSE /\ next_id + Reserved <= cap
                     /\ Enter(self, "add", r, "add_lookup",
                              [NoFrame EXCEPT !.path = p.path, !.img = p.img,
                                              !.bs = p.bs, !.metadata = p.metadata])
    /\ UNCHANGED <<index, next_id, auth_token, searchable>>

(* Line 100: old_ids = ids_with_path(path) *)
AddLookup(self) ==
    /\ pc[self] = "add_lookup"
    /\ \E ids \in ids_with_path(searchable, frame[self].path) :
          frame' = [frame EXCEPT ![self].old_ids = ids]
    /\ pc' = [pc EXCEPT ![self] = "add_insert"]
    /\ out' = NoOut
    /\ UNCHANGED <<index, next_id, auth_token, searchable>>

(* Line 101: ses.add_image(path, img, bytestream=bs, metadata=metadata).  The
   signature is computed first; an image that cannot be read raises and
   nothing is indexed. *)
NewDoc(f) ==
    [id |-> next_id, seq_no |-> next_id, path |-> f.path,
     signature |-> generate_signature(f.img, f.bs), metadata |-> f.metadata]

AddInsertSwallowed(self) ==
    /\ pc[self] = "add_insert"
    /\ IF Decodable(frame[self].img, frame[self].bs)
       THEN /\ index' = index \cup {NewDoc(frame[self])}
            /\ next_id' = next_id + 1
            /\ frame' = [frame EXCEPT ![self].inserted = TRUE]
       ELSE UNCHANGED <<index, next_id, frame>>
    /\ pc' = [pc EXCEPT ![self] = "add_retire"]
    /\ out' = NoOut
    /\ UNCHANGED <<auth_token, searchable>>

AddInsert(self) ==
    /\ pc[self] = "add_insert"
    /\ IF Decodable(frame[self].img, frame[self].bs)
       THEN /\ index' = index \cup {NewDoc(frame[self])}
            /\ next_id' = next_id + 1
            /\ pc' = [pc EXCEPT ![self] = "add_retire"]
            /\ frame' = [frame EXCEPT ![self].inserted = TRUE]
            /\ out' = NoOut
       ELSE /\ Reply(self, "add", <<>>, ErrorResponse("ImageError"), "ImageError", TRUE)
            /\ UNCHANGED <<index, next_id>>
    /\ UNCHANGED <<auth_token, searchable>>

(* Line 102: delete_ids(old_ids), one es.delete per id, then the response. *)
AddRetire(self) ==
    /\ pc[self] = "add_retire"
    /\ IF frame[self].old_ids = {}
       THEN /\ Reply(self, "add", <<>>, Ok("add", <<>>), "", TRUE)
            /\ UNCHANGED index
       ELSE \E i \in frame[self].old_ids :
               /\ index' = es_delete(index, i)
               /\ frame' = [frame EXCEPT ![self].old_ids = @ \ {i}]
               /\ out' = NoOut
               /\ UNCHANGED pc
    /\ UNCHANGED <<next_id, auth_token, searchable>>

-----------------------------------------------------------------------------
(* delete_handler: lines 112-123 *)

DeleteBegin(self, r) ==
    /\ pc[self] = "idle"
    /\ IF denied(r.token)
       THEN Reply(self, "delete", <<r>>, Denied, "", FALSE)
       ELSE IF r.filepath = Absent
            THEN Reply(self, "delete", <<r>>, ErrorResponse("BadRequestKeyError"),
                       "BadRequestKeyError", FALSE)
            ELSE Enter(self, "delete", r, "del_lookup",
                       [NoFrame EXCEPT !.path = r.filepath])
    /\ UNCHANGED <<index, next_id, auth_token, searchable>>

(* Line 116: ids = ids_with_path(path) *)
DeleteLookup(self) ==
    /\ pc[self] = "del_lookup"
    /\ \E ids \in ids_with_path(searchable, frame[self].path) :
          frame' = [frame EXCEPT ![self].old_ids = ids]
    /\ pc' = [pc EXCEPT ![self] = "del_retire"]
    /\ out' = NoOut
    /\ UNCHANGED <<index, next_id, auth_token, searchable>>

(* Line 117: delete_ids(ids), then the response. *)
DeleteRetire(self) ==
    /\ pc[self] = "del_retire"
    /\ IF frame[self].old_ids = {}
       THEN /\ Reply(self, "delete", <<>>, Ok("delete", <<>>), "", TRUE)
            /\ UNCHANGED index
       ELSE \E i \in frame[self].old_ids :
               /\ index' = es_delete(index, i)
               /\ frame' = [frame EXCEPT ![self].old_ids = @ \ {i}]
               /\ out' = NoOut
               /\ UNCHANGED pc
    /\ UNCHANGED <<next_id, auth_token, searchable>>

-----------------------------------------------------------------------------
(* The read-only handlers: lines 126-209.  Each is one step. *)

DefaultMinScore == 70            \* DEFAULT_MIN_SCORE
DefaultAllOrientations == "true" \* ALL_ORIENTATIONS

(* The text of a number in a form or in the environment: n/d in decimal. *)
Dec(n, d) == [n |-> n, d |-> d]

(* float(text) *)
float(text) == FromRatio(text.n, text.d)

default_min_score == float(Dec(DefaultMinScore, 1))

(* An optional number of a form: <<>> when the field is not sent. *)
Opt(x, default) == IF x = <<>> THEN default ELSE x[1]

RECURSIVE ByDistance(_, _)
ByDistance(hits, sig) ==
    IF hits = {} THEN <<>>
    ELSE LET d(r) == normalized_distance(r.signature, sig)
             m == CHOOSE x \in hits :
                     \A y \in hits :
                        FLess(d(x), d(y)) \/ (d(x) = d(y) /\ x.seq_no <= y.seq_no)
         IN  <<m>> \o ByDistance(hits \ {m}, sig)

(* SignatureES(distance_cutoff=cutoff).search_image: the documents closer to
   the probe than the cutoff, closest first.  None of the modelled images is a
   rotation of another, so all_orientations adds no probe. *)
search_image(idx, sig, ao, cutoff) ==
    ByDistance({r \in idx : FLess(normalized_distance(r.signature, sig), cutoff)},
               sig)

SearchReq(token, url, image, ao, min_score) ==
    [token |-> token, url |-> url, image |-> image, all_orientations |-> ao,
     min_score |-> min_score]

search_result(idx, r) ==
    LET g == get_image(r.url, r.image)
        ao == (IF r.all_orientations = Absent THEN DefaultAllOrientations
               ELSE r.all_orientations) = "true"
        min_score == IF r.min_score = <<>> THEN default_min_score
                     ELSE float(r.min_score[1])
        sig == generate_signature(g.img, g.bs)
        matches == search_image(idx, sig, ao, dist_from_percent(min_score))
    IN  [k \in 1..Len(matches) |->
            [score |-> dist_to_percent(normalized_distance(matches[k].signature, sig)),
             filepath |-> matches[k].path,
             metadata |-> matches[k].metadata]]

SearchHandlerIndexing(self, r) ==
    /\ pc[self] = "idle"
    /\ LET g == get_image(r.url, r.image)
       IN  IF denied(r.token) \/ ~HasImage(r.url, r.image) \/ ~Decodable(g.img, g.bs)
           THEN /\ Reply(self, "search", <<r>>, Denied, "", FALSE)
                /\ UNCHANGED index
           ELSE /\ Reply(self, "search", <<r>>,
                         Ok("search", search_result(searchable, r)), "", TRUE)
                /\ index' = index \cup
                       {[id |-> 0, seq_no |-> 0, path |-> g.img, metadata |-> Absent,
                         signature |-> generate_signature(g.img, g.bs)]}
    /\ UNCHANGED <<next_id, auth_token, searchable>>

SearchHandler(self, r) ==
    /\ pc[self] = "idle"
    /\ LET g == get_image(r.url, r.image)
       IN  IF denied(r.token)
           THEN Reply(self, "search", <<r>>, Denied, "", FALSE)
           ELSE IF ~HasImage(r.url, r.image)
                THEN Reply(self, "search", <<r>>,
                           ErrorResponse("BadRequestKeyError"), "BadRequestKeyError",
                           FALSE)
                ELSE IF ~Decodable(g.img, g.bs)
                     THEN Reply(self, "search", <<r>>,
                                ErrorResponse("ImageError"), "ImageError", TRUE)
                     ELSE Reply(self, "search", <<r>>,
                                Ok("search", search_result(searchable, r)), "", TRUE)
    /\ UNCHANGED <<index, next_id, auth_token, searchable>>

CompareReq(token, url1, image1, url2, image2) ==
    [token |-> token, url1 |-> url1, image1 |-> image1, url2 |-> url2,
     image2 |-> image2]

compare_score_one_sided(g1, g2) ==
    dist_to_percent(normalized_distance(generate_signature(g1.img, g1.bs), 0))

compare_score(g1, g2) ==
    dist_to_percent(normalized_distance(generate_signature(g1.img, g1.bs),
                                        generate_signature(g2.img, g2.bs)))

CompareHandler(self, r) ==
    /\ pc[self] = "idle"
    /\ LET g1 == get_image(r.url1, r.image1)
           g2 == get_image(r.url2, r.image2)
       IN  IF denied(r.token)
           THEN Reply(self, "compare", <<r>>, Denied, "", FALSE)
           ELSE IF ~HasImage(r.url1, r.image1) \/ ~HasImage(r.url2, r.image2)
                THEN Reply(self, "compare", <<r>>,
                           ErrorResponse("BadRequestKeyError"), "BadRequestKeyError",
                           FALSE)
                ELSE IF ~Decodable(g1.img, g1.bs) \/ ~Decodable(g2.img, g2.bs)
                     THEN Reply(self, "compare", <<r>>,
                                ErrorResponse("ImageError"), "ImageError", TRUE)
                     ELSE Reply(self, "compare", <<r>>,
                                Ok("compare", <<[score |-> compare_score(g1, g2)]>>),
                                "", TRUE)
    /\ UNCHANGED <<index, next_id, auth_token, searchable>>

CountHandler(self, r) ==
    /\ pc[self] = "idle"
    /\ IF denied(r.token)
       THEN Reply(self, "count", <<r>>, Denied, "", FALSE)
       ELSE Reply(self, "count", <<r>>, Ok("count", <<count_images(searchable)>>),
                  "", TRUE)
    /\ UNCHANGED <<index, next_id, auth_token, searchable>>

ListRequests(tokens, offsets, limits) ==
    [token : tokens, offset : offsets, limit : limits]

ListHandler(self, r) ==
    /\ pc[self] = "idle"
    /\ IF denied(r.token)
       THEN Reply(self, "list", <<r>>, Denied, "", FALSE)
       ELSE Reply(self, "list", <<r>>,
                  Ok("list", paths_at_location(searchable, Max(Opt(r.offset, 0), 0),
                                               Max(Opt(r.limit, 20), 0))),
                  "", TRUE)
    /\ UNCHANGED <<index, next_id, auth_token, searchable>>

PingHandler(self, r) ==
    /\ pc[self] = "idle"
    /\ IF denied(r.token)
       THEN Reply(self, "ping", <<r>>, Denied, "", FALSE)
       ELSE Reply(self, "ping", <<r>>, Ok("ping", <<>>), "", FALSE)
    /\ UNCHANGED <<index, next_id, auth_token, searchable>>

-----------------------------------------------------------------------------
(* The index refreshes by itself, every refresh interval: what has been
   indexed and deleted since the last refresh shows in searches and counts. *)
Refresh ==
    /\ searchable # index
    /\ searchable' = index
    /\ out' = NoOut
    /\ UNCHANGED <<index, next_id, auth_token, pc, frame>>

-----------------------------------------------------------------------------
(* Start-up: lines 16-33 *)

Idle ==
    /\ pc = [p \in Procs |-> "idle"]
    /\ frame = [p \in Procs |-> NoFrame]
    /\ out = NoOut

(* A fresh index: es.indices.create has just created it. *)
Fresh(auth_tokens) ==
    /\ index = {}
    /\ searchable = index
    /\ next_id = 1
    /\ auth_token \in auth_tokens
    /\ Idle

Init == Fresh(AuthTokens)

(* AUTH_TOKEN is set. *)
InitSecured == Fresh({"s"})

-----------------------------------------------------------------------------
(* Spec: adds and deletes of two paths, and counts, by concurrent requests. *)

Adds(tokens) ==
    UNION {{AddReq(t, "a", Absent, Absent, Absent),
            AddReq(t, Absent, "img2", "b", "m"),
            AddReq(t, Absent, "junk", "b", Absent)} : t \in tokens}

Next ==
    \/ Refresh
    \/ \E self \in Procs :
           \/ \E r \in Adds({"s"}) : AddBegin(self, r, CoreMaxId)
           \/ AddLookup(self)
           \/ AddInsert(self)
           \/ AddRetire(self)
           \/ \E r \in DeleteRequests({"s"}, {"a", "b"}) : DeleteBegin(self, r)
           \/ DeleteLookup(self)
           \/ DeleteRetire(self)
           \/ \E r \in PlainRequests({"s"}) : CountHandler(self, r)

Spec == InitSecured /\ [][Next]_vars

-----------------------------------------------------------------------------
(* SpecApi: every handler, with one request of each shape the handlers tell
   apart, by concurrent requests. *)

AddShapes(tokens) ==
    UNION {{AddReq(t, "a", Absent, Absent, Absent),
            AddReq(t, Absent, "img2", "b", "m"),
            AddReq(t, Absent, "junk", "b", Absent),
            AddReq(t, Absent, "img2", Absent, Absent),
            AddReq(t, Absent, "img2", "", Absent),
            AddReq(t, Absent, "img2", Absent, "malformed"),
            AddReq(t, Absent, Absent, "b", Absent),
            AddReq(t, "a", Absent, Absent, "malformed")} : t \in tokens}

SearchShapes(tokens) ==
    UNION {{SearchReq(t, "a", Absent, Absent, <<>>),
            SearchReq(t, Absent, "junk", "false", <<Dec(100, 1)>>),
            SearchReq(t, Absent, Absent, Absent, <<>>)} : t \in tokens}

CompareShapes(tokens) ==
    UNION {{CompareReq(t, "a", Absent, Absent, "img2"),
            CompareReq(t, "a", Absent, Absent, "junk"),
            CompareReq(t, "a", Absent, Absent, Absent)} : t \in tokens}

NextApi ==
    \/ Refresh
    \/ \E self \in Procs :
           \/ \E r \in AddShapes(Tokens) : AddBegin(self, r, ApiMaxId)
           \/ AddLookup(self)
           \/ AddInsert(self)
           \/ AddRetire(self)
           \/ \E r \in DeleteRequests(Tokens, {Absent, "a"}) : DeleteBegin(self, r)
           \/ DeleteLookup(self)
           \/ DeleteRetire(self)
           \/ \E r \in SearchShapes(Tokens) : SearchHandler(self, r)
           \/ \E r \in CompareShapes(Tokens) : CompareHandler(self, r)
           \/ \E r \in PlainRequests(Tokens) : CountHandler(self, r)
           \/ \E r \in ListRequests(Tokens, {<<>>}, {<<>>, <<0>>}) : ListHandler(self, r)
           \/ \E r \in PlainRequests(Tokens) : PingHandler(self, r)

SpecApi == Init /\ [][NextApi]_vars

-----------------------------------------------------------------------------
(* SpecSeq: the requests run one at a time: a request is taken in only when
   no other is in flight. *)

AllIdle == \A p \in Procs : pc[p] = "idle"

SeqAdds ==
    {AddReq("s", "a", Absent, Absent, Absent),
     AddReq("s", Absent, "img2", "a", "m"),
     AddReq("s", "b", Absent, Absent, Absent)}

NextSeq ==
    \/ Refresh
    \/ \E self \in Procs :
           \/ \E r \in SeqAdds : AllIdle /\ AddBegin(self, r, SeqMaxId)
           \/ AddLookup(self)
           \/ AddInsert(self)
           \/ AddRetire(self)
           \/ \E r \in DeleteRequests({"s"}, {"a"}) : AllIdle /\ DeleteBegin(self, r)
           \/ DeleteLookup(self)
           \/ DeleteRetire(self)
           \/ \E r \in PlainRequests({"s"}) : AllIdle /\ CountHandler(self, r)
           \/ \E r \in ListRequests({"s"}, {<<0>>}, {<<10>>}) :
                 AllIdle /\ ListHandler(self, r)

SpecSeq == InitSecured /\ [][NextSeq]_vars

-----------------------------------------------------------------------------
(* SpecAdds: concurrent adds of one path, any number of them, nothing else. *)

SamePathAdds ==
    {AddReq("s", "a", Absent, Absent, Absent),
     AddReq("s", Absent, "img2", "a", "m")}

NextAdds ==
    \/ Refresh
    \/ \E self \in Procs :
           \/ \E r \in SamePathAdds : AddBegin(self, r, MaxId)
           \/ AddLookup(self)
           \/ AddInsert(self)
           \/ AddRetire(self)

SpecAdds == InitSecured /\ [][NextAdds]_vars

-----------------------------------------------------------------------------
(* SpecTwoAdds: two add calls for one path, by two threads or one after the
   other, on an index that holds at most one document of that path. *)

(* A document an earlier run of the server left in the index. *)
Legacy(i, path) ==
    [id |-> i, seq_no |-> i, path |-> path, signature |-> 1, metadata |-> Absent]

InitTwoAdds ==
    /\ index \in {{}, {Legacy(0, "a")}, {Legacy(0, "b")}}
    /\ searchable = index
    /\ next_id = 1
    /\ auth_token \in AuthTokens
    /\ Idle

NextTwoAdds ==
    \/ Refresh
    \/ \E self \in {1, 2} :
           \/ \E r \in SamePathAdds : AddBegin(self, r, 2)
           \/ AddLookup(self)
           \/ AddInsert(self)
           \/ AddRetire(self)

SpecTwoAdds == InitTwoAdds /\ [][NextTwoAdds]_vars

-----------------------------------------------------------------------------
(* SpecPurge: deletes, one at a time, on an index in which one path has any
   number of documents.  The index outlives the server (line 33 tolerates an
   index that already exists), and every add that looked the path up before
   another add's insert leaves its own document behind. *)

InitPurge ==
    /\ \E n \in 0..MaxDup : index = {Legacy(i, "a") : i \in 1..n} \cup {Legacy(0, "b")}
    /\ searchable = index
    /\ next_id = MaxDup + 1
    /\ auth_token = "s"
    /\ Idle

NextPurge ==
    \/ Refresh
    \/ \E self \in Procs :
           \/ \E r \in DeleteRequests({"s"}, {"a"}) : AllIdle /\ DeleteBegin(self, r)
           \/ DeleteLookup(self)
           \/ DeleteRetire(self)

SpecPurge == InitPurge /\ [][NextPurge]_vars

-----------------------------------------------------------------------------
(* SpecScore: the two score conversions, applied to the distances and the
   percents of a grid and then to each other's results. *)

GridSteps == 100

FZero == FromRatio(0, 1)
FHundred == FromRatio(100, 1)

(* Two adjacent floats next to 0: 2^-60 is the float after 2^-60 - 2^-113. *)
Tiny == Float(FALSE, [i \in 1..(FracLimbs - 3) |-> IF i = FracLimbs - 3 THEN 1 ELSE 0])

Distances == {FromRatio(k, GridSteps) : k \in 0..GridSteps} \cup {Tiny}
Percents == {FromRatio(100 * k, GridSteps) : k \in 0..GridSteps}

(* fn was called on the last of inputs and returned value; the inputs before
   the last are what the last was computed from. *)
Applied(fn, inputs, value) ==
    [NoOut EXCEPT !.handler = fn, !.received = inputs, !.resp = value]

DistToPercent(d) ==
    /\ out' = Applied("dist_to_percent", <<d>>, dist_to_percent(d))
    /\ UNCHANGED <<index, next_id, auth_token, searchable, pc, frame>>

DistFromPercent(p) ==
    /\ out' = Applied("dist_from_percent", <<p>>, dist_from_percent(p))
    /\ UNCHANGED <<index, next_id, auth_token, searchable, pc, frame>>

(* dist_from_percent(dist_to_percent(d)) *)
DistBack ==
    /\ out.handler = "dist_to_percent"
    /\ Len(out.received) = 1
    /\ out' = Applied("dist_from_percent", out.received \o <<out.resp>>,
                      dist_from_percent(out.resp))
    /\ UNCHANGED <<index, next_id, auth_token, searchable, pc, frame>>

(* dist_to_percent(dist_from_percent(p)) *)
PercentBack ==
    /\ out.handler = "dist_from_percent"
    /\ Len(out.received) = 1
    /\ out' = Applied("dist_to_percent", out.received \o <<out.resp>>,
                      dist_to_percent(out.resp))
    /\ UNCHANGED <<index, next_id, auth_token, searchable, pc, frame>>

NextScore ==
    \/ \E d \in Distances : DistToPercent(d)
    \/ \E p \in Percents : DistFromPercent(p)
    \/ DistBack
    \/ PercentBack

SpecScore == Fresh({Absent}) /\ [][NextScore]_vars

-----------------------------------------------------------------------------
(* SpecSearch: searches, at every threshold of MinScores, of an index that
   holds the first documents of a catalogue: images at distances 0, 0.1, 0.3,
   0.4, 0.425 and 1 from the image at URL "a", two of them the same image. *)

SearchDocs == 7

CatalogueSigs == <<0, 4, 12, 16, 17, 40, 0, 16>>
CataloguePaths == <<"a", "p2", "p3", "b", "p5", "p6", "p7", "p8">>

Catalogue(n) ==
    {[id |-> i, seq_no |-> i, path |-> CataloguePaths[i],
      signature |-> CatalogueSigs[i],
      metadata |-> Absent] : i \in 1..n}

MinScores ==
    {<<>>} \cup {<<Dec(n, 1)>> : n \in {-10, 0, 60, 90, 100, 120}}
           \cup {<<Dec(575, 10)>>}

SearchGrid ==
    {SearchReq(Absent, "a", Absent, ao, ms) : ao \in {Absent, "false"},
                                              ms \in MinScores}
    \cup {SearchReq(Absent, Absent, "img2", Absent, ms) : ms \in MinScores}

InitSearch ==
    /\ \E n \in 0..SearchDocs : index = Catalogue(n)
    /\ searchable = index
    /\ next_id = SearchDocs + 1
    /\ auth_token = Absent
    /\ Idle

NextSearch == \E self \in Procs : \E r \in SearchGrid : SearchHandler(self, r)

SpecSearch == InitSearch /\ [][NextSearch]_vars

-----------------------------------------------------------------------------
(* SpecList: lists, with and without offset and limit, of an index that
   holds up to ListDocs documents, each of its own path. *)

ListDocs == 25

ListPaths ==
    <<"f01", "f02", "f03", "f04", "f05", "f06", "f07", "f08", "f09", "f10",
      "f11", "f12", "f13", "f14", "f15", "f16", "f17", "f18", "f19", "f20",
      "f21", "f22", "f23", "f24", "f25", "f26", "f27", "f28", "f29", "f30">>

Offsets == {<<>>, <<-5>>, <<0>>, <<3>>, <<20>>, <<30>>}
Limits == {<<>>, <<-1>>, <<0>>, <<7>>, <<20>>}

InitList ==
    /\ \E n \in 0..ListDocs : index = {Legacy(i, ListPaths[i]) : i \in 1..n}
    /\ searchable = index
    /\ next_id = ListDocs + 1
    /\ auth_token = Absent
    /\ Idle

NextList ==
    \E self \in Procs :
        \E r \in ListRequests({Absent}, Offsets, Limits) : ListHandler(self, r)

SpecList == InitList /\ [][NextList]_vars

-----------------------------------------------------------------------------
(* SpecCompare: compares of every pair of image sources: a URL, an upload,
   both, or neither. *)

ImageSources ==
    {<<u, Absent>> : u \in {"a", "b", "c"}}
    \cup {<<Absent, f>> : f \in Blobs}
    \cup {<<"a", "img2">>, <<Absent, Absent>>}

CompareGrid ==
    {CompareReq(Absent, x[1], x[2], y[1], y[2]) : x \in ImageSources,
                                                  y \in ImageSources}

NextCompare == \E self \in Procs : \E r \in CompareGrid : CompareHandler(self, r)

SpecCompare == Fresh({Absent}) /\ [][NextCompare]_vars

-----------------------------------------------------------------------------
(* SpecPaths: adds of every shape of image and path, by concurrent requests,
   on an index that holds at most one document. *)

PathShapes ==
    AddShapes({Absent})
    \cup {AddReq(Absent, "a", Absent, "b", Absent),
          AddReq(Absent, "a", Absent, "", Absent),
          AddReq(Absent, "b", "img1", Absent, Absent),
          AddReq(Absent, Absent, "img2", "", "malformed")}

InitPaths ==
    /\ index \in {{}, {Legacy(0, "a")}, {Legacy(0, "b")}}
    /\ searchable = index
    /\ next_id = 1
    /\ auth_token = Absent
    /\ Idle

NextPaths ==
    \/ Refresh
    \/ \E self \in Procs :
           \/ \E r \in PathShapes : AddBegin(self, r, ApiMaxId)
           \/ AddLookup(self)
           \/ AddInsert(self)
           \/ AddRetire(self)

SpecPaths == InitPaths /\ [][NextPaths]_vars

-----------------------------------------------------------------------------
(* SpecOverlap: adds and deletes, by concurrent requests, of two paths of
   which one ends with the words of the other. *)

OverlapPaths == {"a", "dir/a"}

OverlapAdds == {AddReq(Absent, p, Absent, Absent, Absent) : p \in OverlapPaths}

InitOverlap ==
    /\ index \in {{}} \cup {{Legacy(0, p)} : p \in OverlapPaths}
    /\ searchable = index
    /\ next_id = 1
    /\ auth_token = Absent
    /\ Idle

NextOverlap ==
    \/ Refresh
    \/ \E self \in Procs :
           \/ \E r \in OverlapAdds : AddBegin(self, r, ApiMaxId)
           \/ AddLookup(self)
           \/ AddInsert(self)
           \/ AddRetire(self)
           \/ \E r \in DeleteRequests({Absent}, OverlapPaths) : DeleteBegin(self, r)
           \/ DeleteLookup(self)
           \/ DeleteRetire(self)

SpecOverlap == InitOverlap /\ [][NextOverlap]_vars

-----------------------------------------------------------------------------
(* Properties *)

StepOf(self) == pc'[self] # pc[self] \/ frame'[self] # frame[self]

(* The add has made its last call on the index and is about to answer. *)
AddDone(self) == pc[self] = "add_retire" /\ frame[self].old_ids = {}

DeleteDone(self) == pc[self] = "del_retire" /\ frame[self].old_ids = {}

(* The documents stored under a path: those ses.add_image(path, ...) of line
   101 has indexed with exactly this path and no es.delete has removed.  This
   is the content of the index, which the properties speak of, and not the
   answer of the lookup of lines 39-41: ids_with_path reads the refreshed
   view, matches by the words of the path and returns one page. *)
Docs(path) == {r \in index : r.path = path}

Occurrences(seq, x) == Cardinality({k \in DOMAIN seq : seq[k] = x})

(* C1: when adds (and the other requests) run one at a time on a fresh index,
   an add that has made its last call leaves exactly one document of its
   path, the document has the signature and metadata of this add, and, once
   the index is refreshed, the lookup by path returns that document alone, a
   listing shows the path once and the count is one per path. *)
SequentialAddLeavesOne ==
    \A self \in Procs :
        AddDone(self) =>
            LET f == frame[self]
            IN  /\ Cardinality(Docs(f.path)) = 1
                /\ \A r \in Docs(f.path) :
                      /\ r.signature = generate_signature(f.img, f.bs)
                      /\ r.metadata = f.metadata
                      /\ ids_with_path(index, f.path) = {{r.id}}
                /\ Occurrences(paths_at_location(index, 0, 10), f.path) = 1
                /\ count_images(index) = Cardinality({r.path : r \in index})

(* C2: once an add has answered and no request is in flight, its path has
   exactly one document, also when other adds of the path ran concurrently.
   (SpecAdds adds one path only.) *)
SteadyStateOneDocument ==
    (AllIdle /\ out.resp = Ok("add", <<>>)) => Cardinality(Docs("a")) = 1

(* C3, as stated: with two add calls for path "a" on an index that held at
   most one document of it, the path never has more than two documents. *)
TwoAddsAtMostTwo == Cardinality(Docs("a")) <= 2

(* C3, amended: the path never has more than three documents, and once both
   adds have answered it has one or two. *)
TwoAddsAtMostThree ==
    /\ Cardinality(Docs("a")) <= 3
    /\ (AllIdle /\ next_id = 3) => Cardinality(Docs("a")) \in {1, 2}

(* Both adds looked up the old document and both inserted before either
   retired it. *)
TwoAddsThreeDocuments == Cardinality(Docs("a")) = 3

(* C4: an add deletes a document only after its own insert has succeeded, and
   an insert that fails ends the request with the error, deleting nothing. *)
InsertBeforeRetire ==
    [][\A self \in Procs :
          /\ (StepOf(self) /\ pc[self] \in {"add_lookup", "add_insert", "add_retire"}
                /\ ~(index \subseteq index'))
             => frame[self].inserted
          /\ (StepOf(self) /\ pc[self] = "add_insert"
                /\ ~Decodable(frame[self].img, frame[self].bs))
             => /\ index' = index
                /\ pc'[self] = "idle"
                /\ out'.resp = server_error("ImageError")
                /\ out'.raised = "ImageError"]_vars

(* An add of path "b" has just failed at its insert; the document it had
   looked up is still there. *)
FailedInsertWitness ==
    /\ out.handler = "add"
    /\ out.raised = "ImageError"
    /\ Docs("b") # {}

(* C5: a step of an add or a delete for one path leaves the documents of
   every other path as they were. *)
OtherPathsUntouched ==
    [][\A self \in Procs :
          StepOf(self) =>
              LET path == IF pc[self] = "idle" THEN frame'[self].path
                          ELSE frame[self].path
              IN  {r \in index : r.path # path} = {r \in index' : r.path # path}]_vars

(* C6: a delete never fails, and a delete that follows a delete of the same
   path finds nothing left to delete.  (SpecPurge deletes one path, one
   request at a time.) *)
DeleteTwiceIdempotent ==
    [][/\ (out'.handler = "delete" /\ out'.resp # NoResp)
          => out'.resp = Ok("delete", <<>>)
       /\ (out.resp = Ok("delete", <<>>) /\ out'.handler = "delete"
             /\ out'.received # <<>>)
          => Docs(out'.received[1].filepath) = {}]_vars

(* C7: a delete that has made its last call has left no document of its path,
   however many there were. *)
DeleteLeavesNone ==
    \A self \in Procs : DeleteDone(self) => Docs(frame[self].path) = {}

(* C8: an add with an uploaded image and no path fails, with the ValueError of
   line 96 when its metadata parses, before any call on the index and with
   the index as it was. *)
RawNoPath(r) == r.url = Absent /\ r.image # Absent /\ ~Truthy(r.filepath)

InvalidAddTouchesNothing ==
    [][(out'.handler = "add" /\ out'.received # <<>>
          /\ ~denied(out'.received[1].token) /\ RawNoPath(out'.received[1]))
       => /\ out'.resp.status = "fail"
          /\ ValidJson(out'.received[1].metadata) => out'.raised = "ValueError"
          /\ ~out'.touched
          /\ pc'[out'.proc] = "idle"
          /\ index' = index
          /\ next_id' = next_id]_vars

(* The add was refused while a document was indexed. *)
InvalidAddWitness ==
    /\ out.handler = "add"
    /\ out.raised = "ValueError"
    /\ index # {}

(* C9: with a token configured, a request of any handler that presents
   another token gets the empty 403 response at once: no call is made, no
   thread goes on into a handler, the index is as it was. *)
Mismatch(o) ==
    o.received # <<>> /\ Truthy(auth_token) /\ o.received[1].token # auth_token

TokenGatesEveryHandler ==
    [][Mismatch(out')
       => /\ out'.resp = Denied
          /\ ~out'.touched
          /\ pc' = pc
          /\ frame' = frame
          /\ index' = index
          /\ next_id' = next_id]_vars

(* A delete of an indexed path was denied. *)
TokenGateWitness ==
    /\ Mismatch(out)
    /\ out.handler = "delete"
    /\ out.resp = Denied
    /\ out.received[1].filepath = "a"
    /\ Docs("a") # {}

(* C10: the add refused for want of a path, and the delete without a path,
   are answered with the bad-request response. *)
InvalidInputIsBadRequest ==
    ((out.handler = "add" /\ out.raised = "ValueError")
        \/ (out.handler = "delete" /\ out.raised = "BadRequestKeyError"))
    => out.resp = bad_request

-----------------------------------------------------------------------------
(* Score conversion *)

(* |x - y| *)
Gap(x, y) ==
    IF x.neg # y.neg THEN MagAdd(x.z, y.z)
    ELSE IF MagLess(x.z, y.z) THEN MagSub(y.z, x.z) ELSE MagSub(x.z, y.z)

(* 1e-12 *)
Tolerance == FDiv(FDiv(FromRatio(1, 10000), 10000), 10000)

Close(x, y) == ~MagLess(Tolerance.z, Gap(x, y))

RoundTrip == out.handler \in {"dist_to_percent", "dist_from_percent"}
             /\ Len(out.received) = 2

ToPercentOf(d) == out.handler = "dist_to_percent" /\ out.received = <<d>>

(* C12 as stated: a conversion followed by the other returns exactly the
   distance, or the percent, it started from; dist_to_percent maps 0 to 100
   and 1 to 0, and a larger distance always has a strictly smaller percent. *)
ScoreRoundTripExact ==
    /\ RoundTrip => out.resp = out.received[1]
    /\ ToPercentOf(FZero) => out.resp = FHundred
    /\ ToPercentOf(Float(FALSE, One)) => out.resp = FZero
    /\ \A d \in Distances : \A e \in Distances :
          ToPercentOf(d) /\ FLess(d, e) => FLess(dist_to_percent(e), out.resp)

(* C12: a conversion followed by the other returns the distance, or the
   percent, it started from to within the tolerance of float arithmetic;
   dist_to_percent maps 0 to exactly 100 and 1 to exactly 0, a larger distance
   never has a larger percent, and it has a strictly smaller one when the two
   distances are further apart than the tolerance. *)
ScoreRoundTripClose ==
    /\ RoundTrip => Close(out.resp, out.received[1])
    /\ ToPercentOf(FZero) => out.resp = FHundred
    /\ ToPercentOf(Float(FALSE, One)) => out.resp = FZero
    /\ \A d \in Distances : \A e \in Distances :
          ToPercentOf(d) /\ FLess(d, e) =>
              /\ ~FLess(out.resp, dist_to_percent(e))
              /\ ~Close(d, e) => FLess(dist_to_percent(e), out.resp)

(* A round trip that does not return the float it started from. *)
ScoreRoundTripWitness ==
    /\ RoundTrip
    /\ out.resp # out.received[1]
    /\ Close(out.resp, out.received[1])

-----------------------------------------------------------------------------
(* Search *)

(* A search was answered with its list of hits. *)
SearchAnswered == out.handler = "search" /\ out.resp.code = 200

(* The min_score a search request asks for. *)
Threshold(r) ==
    IF r.min_score = <<>> THEN default_min_score ELSE float(r.min_score[1])

Hits(result) == {result[k] : k \in 1..Len(result)}

(* C11: on one index and for one probe image, a search with threshold b >= a
   returns no more hits than the search with threshold a, and only hits that
   the search with threshold a returns too. *)
CutoffMonotone ==
    SearchAnswered =>
        \A ms \in MinScores :
            LET a == out.received[1]
                b == [a EXCEPT !.min_score = ms]
                higher == search_result(searchable, b)
            IN  ~FLess(Threshold(b), Threshold(a)) =>
                    /\ Len(higher) <= Len(out.resp.result)
                    /\ Hits(higher) \subseteq Hits(out.resp.result)

(* A search with hits of which a higher threshold keeps some and drops
   others. *)
CutoffWitness ==
    /\ SearchAnswered
    /\ \E ms \in MinScores :
          LET a == out.received[1]
              b == [a EXCEPT !.min_score = ms]
              higher == search_result(searchable, b)
          IN  /\ FLess(Threshold(a), Threshold(b))
              /\ higher # <<>>
              /\ Len(higher) < Len(out.resp.result)

-----------------------------------------------------------------------------
(* List *)

ListAnswered == out.handler = "list" /\ out.resp.code = 200

(* C13: with N documents in the index, list(offset, limit) returns exactly
   min(limit', max(0, N - offset')) paths, where offset' = max(offset, 0),
   limit' = max(limit, 0), and a missing offset is 0 and a missing limit 20. *)
ListWindow ==
    ListAnswered =>
        LET r == out.received[1]
            offset == Max(IF r.offset = <<>> THEN 0 ELSE r.offset[1], 0)
            limit == Max(IF r.limit = <<>> THEN 20 ELSE r.limit[1], 0)
            N == Cardinality(index)
        IN  Len(out.resp.result) = Min(limit, Max(0, N - offset))

(* list(20, 20) of 25 documents: the last 5 paths. *)
ListWitness ==
    /\ ListAnswered
    /\ Cardinality(index) = 25
    /\ out.received[1].offset = <<20>>
    /\ out.received[1].limit = <<20>>
    /\ out.resp.result = <<"f21", "f22", "f23", "f24", "f25">>

-----------------------------------------------------------------------------
(* Read-only operations *)

ReadOnly == {"search", "compare", "list", "count", "ping"}

(* C14: no step of search, compare, list, count or ping changes the set of
   documents in the index, whatever the other requests in flight. *)
ReadsLeaveIndex ==
    [][out'.handler \in ReadOnly => index' = index /\ next_id' = next_id]_vars

(* A search and a compare answered while an add is between its insert and
   its reply. *)
ReadDuringAdd(handler) ==
    /\ out.handler = handler
    /\ out.resp.code = 200
    /\ index # {}
    /\ \E p \in Procs : pc[p] = "add_retire"

ReadsWitness == ReadDuringAdd("search") \/ ReadDuringAdd("compare")

-----------------------------------------------------------------------------
(* Count *)

CountAnswered == out.handler = "count" /\ out.resp.code = 200

(* The add of thread p has inserted its document and has not yet deleted a
   document of the same path that it looked up before. *)
ReplaceWindow(p) ==
    /\ pc[p] = "add_retire"
    /\ frame[p].inserted
    /\ \E r \in Docs(frame[p].path) : r.id \in frame[p].old_ids
    /\ \E r \in Docs(frame[p].path) : r.id \notin frame[p].old_ids

(* C15: count returns the number of documents in the index, duplicates of a
   path included: while an add is between its insert and the delete of the
   document it replaces, the count is at least the old and the new document
   of its path. *)
CountsEveryDocument ==
    CountAnswered =>
        /\ out.resp.result = <<Cardinality(index)>>
        /\ \A p \in Procs :
              ReplaceWindow(p) =>
                  out.resp.result[1] >= Cardinality(Docs(frame[p].path))

-----------------------------------------------------------------------------
(* Compare *)

CompareAnswered == out.handler = "compare" /\ out.resp.code = 200

(* C16: the score compare returns for images A and B is the score it returns
   for B and A. *)
CompareSymmetric ==
    CompareAnswered =>
        LET r == out.received[1]
        IN  out.resp.result[1].score =
                compare_score(get_image(r.url2, r.image2),
                              get_image(r.url1, r.image1))

(* Two different images compared: a score below 100. *)
CompareWitness ==
    /\ CompareAnswered
    /\ FLess(out.resp.result[1].score, FHundred)

(* The signature of the probe image of a search request. *)
ProbeSig(r) ==
    LET g == get_image(r.url, r.image) IN generate_signature(g.img, g.bs)

(* C17: every hit of search(probe, min_score) has a score >= min_score, and
   the hits come closest first, by non-increasing score; with min_score = 100
   the hits are exactly the documents whose signature is the probe's; with
   min_score <= 0 every document is a hit; a search without hits is
   answered as a success. *)
SearchThresholdAndOrder ==
    SearchAnswered =>
        LET r == out.received[1]
            hits == out.resp.result
        IN  /\ \A k \in 1..Len(hits) : ~FLess(hits[k].score, Threshold(r))
            /\ \A k \in 1..(Len(hits) - 1) : ~FLess(hits[k].score, hits[k + 1].score)
            /\ Threshold(r) = FHundred =>
                   {h.filepath : h \in Hits(hits)} =
                       {d.path : d \in {x \in index : x.signature = ProbeSig(r)}}
            /\ ~FLess(FZero, Threshold(r)) => Len(hits) = Cardinality(index)
            /\ out.resp.status = "ok"

-----------------------------------------------------------------------------
(* The path of an add *)

(* Thread self takes in an add request. *)
AddTakenIn(self) ==
    pc[self] = "idle" /\ out'.proc = self /\ out'.handler = "add"

(* The lookup, the insert and every delete of an add use the path the add
   resolved when it was taken in. *)
OnePathThroughout(self) ==
    /\ AddTakenIn(self) /\ pc'[self] = "add_lookup" =>
          LET r == out'.received[1]
          IN  frame'[self].path =
                  IF Truthy(r.filepath) THEN r.filepath ELSE r.url
    /\ StepOf(self) /\ pc[self] = "add_lookup" =>
          /\ frame'[self].old_ids \subseteq Matching(searchable, frame[self].path)
          /\ frame'[self].path = frame[self].path
    /\ StepOf(self) /\ pc[self] = "add_insert" =>
          \A d \in index' \ index : d.path = frame[self].path
    /\ StepOf(self) /\ pc[self] = "add_retire" =>
          /\ {d.id : d \in index \ index'} \subseteq frame[self].old_ids
          /\ frame'[self].old_ids \subseteq frame[self].old_ids

(* C18 as stated: the document an add creates has the explicit path when one
   is given and otherwise the URL of the image; the ValueError of line 96 is
   raised exactly when the image is uploaded and no non-empty path is given;
   the ids the add deletes are those it looked up for that path. *)
PathResolvedExactly ==
    [][\A self \in Procs :
          /\ OnePathThroughout(self)
          /\ AddTakenIn(self) =>
                (out'.raised = "ValueError" <=> RawNoPath(out'.received[1]))]_vars

(* C18: the same, the ValueError being raised exactly when the image is
   uploaded, no non-empty path is given and the metadata field, if sent, is
   valid JSON; with malformed metadata the add fails with the JSON decoding
   error whatever its image and path. *)
PathResolved ==
    [][\A self \in Procs :
          /\ OnePathThroughout(self)
          /\ AddTakenIn(self) =>
                LET r == out'.received[1]
                IN  /\ out'.raised = "ValueError"
                          <=> (RawNoPath(r) /\ ValidJson(r.metadata))
                    /\ ~ValidJson(r.metadata) => out'.raised = "JSONDecodeError"]_vars

(* An add of a URL with an empty filepath has inserted its document under the
   URL and is about to delete the document it found under that path. *)
PathWitness ==
    \E p \in Procs :
        /\ pc[p] = "add_retire"
        /\ frame[p].inserted
        /\ frame[p].path = "a" /\ frame[p].img = "a" /\ ~frame[p].bs
        /\ frame[p].old_ids = {0}
        /\ Cardinality(Docs("a")) = 2

-----------------------------------------------------------------------------
(* Concurrent adds of one path *)

(* The document inserted last. *)
Newest == {d \in index : d.id = next_id - 1}

(* C19: among concurrent adds of one path, an add never deletes the document
   it inserted itself (its own document is not among the ids it looked up,
   and it deletes none but those), and from the first insert on the document
   inserted last is in the index: the path is never without a document. *)
NewestSurvives ==
    [][/\ \A self \in Procs :
            /\ StepOf(self) /\ pc[self] = "add_insert" =>
                  \A d \in index' \ index :
                      /\ d.id \notin frame'[self].old_ids
                      /\ frame'[self].old_ids = frame[self].old_ids
            /\ StepOf(self) /\ pc[self] = "add_retire" =>
                  /\ {d.id : d \in index \ index'} \subseteq frame[self].old_ids
                  /\ frame'[self].old_ids \subseteq frame[self].old_ids
       /\ next_id' > 1 => /\ Newest' # {}
                          /\ \A d \in Newest' : d.path = "a"]_vars

(* The second add has deleted the document of the first: only the document
   inserted last remains. *)
NewestWitness ==
    /\ next_id >= 3
    /\ index = Newest
    /\ index # {}

====
